---- MODULE Spec2Model ----
(***************************************************************************)
(* Model of participants/check_package_is_complete.py: the participant     *)
(* that checks that every submitted package carries a spec file, a changes *)
(* file and exactly the source files its spec / dsc declare.               *)
(*                                                                         *)
(* A file name is the sequence of its dot-separated components             *)
(* ("foo.tar.gz" is <<"foo","tar","gz">>, ".spec" is <<"","spec">>); a     *)
(* path is the sequence of its slash-separated file names.  A message is   *)
(* the sequence of the pieces the code concatenates; None and "" are the   *)
(* empty sequence.                                                         *)
(***************************************************************************)
EXTENDS Integers, Sequences, FiniteSets, TLC

\* Bounds of the model.
MaxActions == 2
MaxFiles == 3

VARIABLES
    pc,         \* position of the job thread inside handle_wi
    wid,        \* the workitem: result field and fields.ev
    obs,        \* self.obs
    idx,        \* position of the `for action in actions` loop
    result,     \* handle_wi's local `result`
    level,      \* skip/warn level of the running is_complete / check_source_files
    filelist,   \* is_complete's local `filelist`
    spec,       \* is_complete's local `spec`
    changes,    \* is_complete's local `changes`
    sources,    \* check_source_files' local `sources`
    msg,        \* check_source_files' local `msg`
    tmp_spec,   \* the NamedTemporaryFile of get_rpm_sources
    ret,        \* what the calls of the running action raised or returned
    calls,      \* calls made by the running handle_wi, in order
    completes   \* pkg_complete of every action processed by the running handle_wi

vars == <<pc, wid, obs, idx, result, level, filelist, spec, changes, sources,
          msg, tmp_spec, ret, calls, completes>>

----------------------------------------------------------------------------
\* File names, paths and the inputs the collaborators can supply.

SpecName == <<"foo", "spec">>
ChangesName == <<"foo", "changes">>
DscName == <<"foo", "dsc">>
FooTar == <<"foo", "tar", "gz">>
BarTar == <<"bar", "tar", "gz">>

\* Names a package file listing can hold.
Names == {SpecName, ChangesName, DscName, FooTar}

\* Listings getPackageFileList can return.
RECURSIVE SeqsUpTo(_, _)
SeqsUpTo(S, n) ==
    IF n = 0 THEN {<<>>}
    ELSE LET shorter == SeqsUpTo(S, n - 1)
         IN shorter \cup {Append(s, x) : s \in {t \in shorter : Len(t) = n - 1}, x \in S}

FileLists == SeqsUpTo(Names, MaxFiles)

\* Source paths a spec file can declare, and file names a dsc can declare.
SpecSources == {<<<<"http://example", "org">>, FooTar>>, <<BarTar>>}
DscFiles == {FooTar, BarTar}

\* Submit request actions: the k-th action of a request, and the requests.
ActionAt(k) == [sourceproject |-> "home:dev", sourcepackage |-> k, sourcerevision |-> "1"]
ActionLists == {[k \in 1..n |-> ActionAt(k)] : n \in 0..MaxActions}
Namespaces == {"apiurl"}

\* Levels of the [checks] section of a package's boss.conf.
Levels == {"enforce", "warn", "skip"}

NoAction == [sourceproject |-> "", sourcepackage |-> 0, sourcerevision |-> ""]
None == <<>>

----------------------------------------------------------------------------
\* Library functions, by what they compute on names and paths.

\* name.endswith("." + suffix)
EndsWith(name, suffix) == Len(name) >= 2 /\ name[Len(name)] = suffix

\* os.path.splitext(name)[1] without its dot, <<>> for no extension: leading
\* dots do not start an extension.
SplitExt(name) ==
    IF Len(name) >= 2 /\ \E k \in 1..(Len(name) - 1) : name[k] # ""
    THEN <<name[Len(name)]>>
    ELSE <<>>

\* os.path.basename(path)
Basename(path) == path[Len(path)]

\* [name for name in filelist if name.endswith(suffix)]
Matching(fl, suffix) == SelectSeq(fl, LAMBDA name : EndsWith(name, suffix))

\* The orders in which a set can be iterated.
Orderings(S) ==
    {s \in [1..Cardinality(S) -> S] : \A a, b \in 1..Cardinality(S) : s[a] = s[b] => a = b}

Piece(text, names) == [text |-> text, names |-> names]

----------------------------------------------------------------------------
\* boss.checks.CheckActionProcessor: the skip/warn gate around a check.

\* What a gated check returns without running, at level skip.
Skipped == [ok |-> TRUE, msg |-> None]

\* What a gated check returns when the check itself returned r.
CheckActionProcessor(lvl, r) ==
    IF lvl = "skip" THEN Skipped
    ELSE IF lvl = "warn" /\ ~r.ok THEN [ok |-> TRUE, msg |-> r.msg]
    ELSE r

----------------------------------------------------------------------------
\* The checks of ParticipantHandler.

has_changes_file(fl) ==
    IF \E k \in 1..Len(fl) : EndsWith(fl[k], "changes")
    THEN [ok |-> TRUE, msg |-> None]
    ELSE [ok |-> FALSE, msg |-> <<Piece("No .changes file found", <<>>)>>]

has_spec_file(fl) ==
    IF \E k \in 1..Len(fl) : EndsWith(fl[k], "spec")
    THEN [ok |-> TRUE, msg |-> None]
    ELSE [ok |-> FALSE, msg |-> <<Piece("No .spec file found", <<>>)>>]

\* What obs.getFile and the parsers can answer to get_rpm_sources and
\* get_deb_sources.
RpmReplies ==
    {[kind |-> k, declared |-> {}] : k \in {"fetch fails", "ValueError", "IOError"}}
    \cup {[kind |-> "parsed", declared |-> d] : d \in SUBSET SpecSources}

DebReplies ==
    {[kind |-> k, declared |-> {}] : k \in {"fetch fails", "parse fails"}}
    \cup {[kind |-> "parsed", declared |-> d] : d \in SUBSET DscFiles}

\* get_rpm_sources: what it raises ("" when it returns), the names it returns,
\* the SourceError text, the file it fetched and the state it leaves its
\* temporary file in ("none": never created).
get_rpm_sources(fl, reply) ==
    IF Matching(fl, "spec") = <<>>
    THEN [raises |-> "SourceError", outcome |-> "not found", names |-> {},
          msg |-> <<Piece("No spec file found", <<>>)>>, fetched |-> <<>>, tmp |-> "none"]
    ELSE LET spec_name == Matching(fl, "spec")[1] IN
         CASE reply.kind = "fetch fails" ->
                [raises |-> "SourceError", outcome |-> "fetch failed", names |-> {},
                 msg |-> <<Piece("Failed to fetch spec file", <<spec_name>>)>>,
                 fetched |-> <<spec_name>>, tmp |-> "none"]
           [] reply.kind = "IOError" ->
                [raises |-> "IOError", outcome |-> "escaped", names |-> {},
                 msg |-> None, fetched |-> <<spec_name>>, tmp |-> "open"]
           [] reply.kind = "ValueError" ->
                [raises |-> "SourceError", outcome |-> "parse failed", names |-> {},
                 msg |-> <<Piece("Failed to parse spec file", <<>>)>>,
                 fetched |-> <<spec_name>>, tmp |-> "open"]
           [] OTHER ->
                [raises |-> "", outcome |-> "ok",
                 names |-> {Basename(path) : path \in reply.declared},
                 msg |-> None, fetched |-> <<spec_name>>, tmp |-> "closed"]

\* get_deb_sources, likewise.
get_deb_sources(fl, reply) ==
    IF Matching(fl, "dsc") = <<>>
    THEN [raises |-> "SourceError", outcome |-> "not found", names |-> {},
          msg |-> <<Piece("No dsc file found", <<>>)>>, fetched |-> <<>>]
    ELSE LET dsc_name == Matching(fl, "dsc")[1] IN
         CASE reply.kind = "fetch fails" ->
                [raises |-> "SourceError", outcome |-> "fetch failed", names |-> {},
                 msg |-> <<Piece("Failed to fetch dsc file", <<dsc_name>>)>>,
                 fetched |-> <<dsc_name>>]
           [] reply.kind = "parse fails" ->
                [raises |-> "SourceError", outcome |-> "parse failed", names |-> {},
                 msg |-> <<Piece("Failed to parse dsc file", <<>>)>>,
                 fetched |-> <<dsc_name>>]
           [] OTHER ->
                [raises |-> "", outcome |-> "ok", names |-> reply.declared,
                 msg |-> None, fetched |-> <<dsc_name>>]


\* UpdateSources with the message overwritten instead of extended.
UpdateSourcesOverwriteMsg(srcs, m, got) ==
    IF got.raises = "SourceError"
    THEN [sources |-> srcs, msg |-> got.msg]
    ELSE [sources |-> srcs \cup got.names, msg |-> m]

\* UpdateSources with the names collected so far dropped on a SourceError.
UpdateSourcesDiscard(srcs, m, got) ==
    IF got.raises = "SourceError"
    THEN [sources |-> {}, msg |-> m \o got.msg]
    ELSE [sources |-> srcs \cup got.names, msg |-> m]

\* One try/except block of check_source_files: sources.update(...) when the
\* call returned, msg += str(exobj) when it raised SourceError.
UpdateSources(srcs, m, got) ==
    IF got.raises = "SourceError"
    THEN [sources |-> srcs, msg |-> m \o got.msg]
    ELSE [sources |-> srcs \cup got.names, msg |-> m]


\* ScanFiles without `sources.remove(name)`; the names left are those matched
\* by no entry.
RECURSIVE ScanFilesKeep(_, _, _, _)
ScanFilesKeep(fl, k, srcs, extras) ==
    IF k > Len(fl)
    THEN [sources |-> {n \in srcs : \A j \in 1..Len(fl) :
                          SplitExt(fl[j]) \in {<<"spec">>, <<"changes">>, <<"dsc">>}
                          \/ fl[j] # n},
          extras |-> extras]
    ELSE IF SplitExt(fl[k]) \in {<<"spec">>, <<"changes">>, <<"dsc">>}
         THEN ScanFilesKeep(fl, k + 1, srcs, extras)
    ELSE IF fl[k] \notin srcs
         THEN ScanFilesKeep(fl, k + 1, srcs, Append(extras, fl[k]))
    ELSE ScanFilesKeep(fl, k + 1, srcs, extras)

\* The `for name in filelist` loop of check_source_files, from entry k on.
RECURSIVE ScanFiles(_, _, _, _)
ScanFiles(fl, k, srcs, extras) ==
    IF k > Len(fl) THEN [sources |-> srcs, extras |-> extras]
    ELSE IF SplitExt(fl[k]) \in {<<"spec">>, <<"changes">>, <<"dsc">>}
         THEN ScanFiles(fl, k + 1, srcs, extras)
    ELSE IF fl[k] \notin srcs
         THEN ScanFiles(fl, k + 1, srcs, Append(extras, fl[k]))
    ELSE ScanFiles(fl, k + 1, srcs \ {fl[k]}, extras)

\* `if not sources`
NoSources(srcs) == srcs = {}

ResolutionFailure(m) ==
    [ok |-> FALSE,
     msg |-> <<Piece("Failed to get source file list from spec or dsc: ", <<>>)>> \o m]

\* Reconcile with only the missing names deciding the result.
ReconcileMissingOnly(fl, srcs, m, order) ==
    IF NoSources(srcs) THEN ResolutionFailure(m)
    ELSE LET scan == ScanFiles(fl, 1, srcs, <<>>)
         IN IF scan.sources # {}
            THEN [ok |-> FALSE, msg |-> m \o <<Piece("Missing source files: ", order)>>]
            ELSE [ok |-> TRUE, msg |-> None]

\* check_source_files from `if not sources` on; order is the order in which
\* ", ".join(sources) iterates the names left in the set.
Reconcile(fl, srcs, m, order) ==
    IF NoSources(srcs) THEN ResolutionFailure(m)
    ELSE LET scan == ScanFiles(fl, 1, srcs, <<>>)
             m1 == IF scan.extras # <<>>
                   THEN m \o <<Piece("Extra source files: ", scan.extras)>>
                   ELSE m
             m2 == IF scan.sources # {}
                   THEN m1 \o <<Piece("Missing source files: ", order)>>
                   ELSE m1
         IN IF scan.extras # <<>> \/ scan.sources # {}
            THEN [ok |-> FALSE, msg |-> m2]
            ELSE [ok |-> TRUE, msg |-> None]


\* RunsSourceCheck without the `spec and` guard.
RunsSourceCheckAlways(s) == TRUE

\* `spec and self.check_source_files(...)`: whether the right operand runs.
RunsSourceCheck(s) == s

\* is_complete's return value.
PkgComplete(s, c, src) == s /\ c /\ src


\* NoActions as `actions is None`.
NoActionsAbsentOnly(actions) == ~actions.given

\* `if not actions`
NoActions(actions) == ~actions.given \/ actions.list = <<>>


\* EntryResult without the reset.
EntryResultKept(old) == old

\* `wid.result = False` on entry.
EntryResult(old) == FALSE


\* Accumulate as `result = pkg_complete`.
AccumulateLast(res, pkg_complete) == pkg_complete

\* `if not pkg_complete: result = False`
Accumulate(res, pkg_complete) == IF ~pkg_complete THEN FALSE ELSE res

\* The `for action in actions` loop: whether an action follows position i.
HasNext(actions, i) == i < Len(actions.list)

----------------------------------------------------------------------------
\* The job thread.

Call(op, action, name) == [op |-> op, action |-> action, name |-> name]

\* Nothing raised or returned yet by the calls of the running action.
NoRet ==
    [rpm |-> "-", deb |-> "-", rpm_names |-> {}, deb_names |-> {}, declared |-> {},
     csf_ran |-> FALSE, csf |-> Skipped, sources_ok |-> FALSE, pkg_complete |-> FALSE]

NoLevel == [is_complete |-> "enforce", sources |-> "enforce"]

\* The workitems the engine can hand over, with the result field an earlier
\* participant or run left: ev.actions is absent, empty or a list of actions.
Workitems(res) ==
    {[result |-> res,
      ev |-> [actions |-> [given |-> g, list |-> IF g THEN l ELSE <<>>],
              namespace |-> ns]] :
        g \in BOOLEAN, l \in ActionLists, ns \in Namespaces}

Init ==
    /\ pc = "idle"
    /\ wid \in Workitems(FALSE)
    /\ obs = "None"
    /\ idx = 0
    /\ result = FALSE
    /\ level = NoLevel
    /\ filelist = <<>>
    /\ spec = FALSE
    /\ changes = FALSE
    /\ sources = {}
    /\ msg = None
    /\ tmp_spec = "none"
    /\ ret = NoRet
    /\ calls = <<>>
    /\ completes = <<>>

\* handle_wi up to the first is_complete call.
HandleWi ==
    /\ pc = "idle"
    /\ completes' = <<>>
    /\ IF NoActions(wid.ev.actions)
       THEN /\ wid' = [wid EXCEPT !.result = EntryResult(wid.result)]
            /\ pc' = "RuntimeError"
            /\ calls' = <<>>
            /\ UNCHANGED <<obs, idx, result>>
       ELSE /\ obs' = wid.ev.namespace
            /\ calls' = <<Call("setup_obs", NoAction, <<>>)>>
            /\ result' = TRUE
            /\ IF HasNext(wid.ev.actions, 0)
               THEN /\ wid' = [wid EXCEPT !.result = EntryResult(wid.result)]
                    /\ idx' = 1
                    /\ pc' = "is_complete"
               ELSE /\ wid' = [wid EXCEPT !.result = TRUE]
                    /\ idx' = 0
                    /\ pc' = "done"
    /\ UNCHANGED <<level, filelist, spec, changes, sources, msg, tmp_spec, ret>>

\* is_complete's return through its gate.
Returned(lvl, raw) == CheckActionProcessor(lvl, [ok |-> raw, msg |-> None]).ok

\* is_complete up to the call of check_source_files.
IsComplete ==
    /\ pc = "is_complete"
    /\ LET action == wid.ev.actions.list[idx]
           entered == Append(calls, Call("is_complete", action, <<>>))
           listed == Append(entered, Call("getPackageFileList", action, <<>>))
       IN
       \E lvl \in Levels :
          IF lvl = "skip"
          THEN /\ pc' = "returned"
               /\ calls' = entered
               /\ ret' = [NoRet EXCEPT !.pkg_complete = Skipped.ok]
               /\ UNCHANGED <<level, filelist, spec, changes>>
          ELSE \E fetched \in BOOLEAN, fl \in FileLists, ls \in Levels, lc \in Levels :
               LET s == CheckActionProcessor(ls, has_spec_file(fl)).ok
                   c == CheckActionProcessor(lc, has_changes_file(fl)).ok
               IN IF ~fetched
                  THEN /\ fl = <<>> /\ ls = "enforce" /\ lc = "enforce"
                       /\ pc' = "Exception"
                       /\ calls' = listed
                       /\ ret' = NoRet
                       /\ UNCHANGED <<level, filelist, spec, changes>>
                  ELSE /\ filelist' = fl
                       /\ spec' = s
                       /\ changes' = c
                       /\ level' = [level EXCEPT !.is_complete = lvl]
                       /\ calls' = listed
                       /\ IF RunsSourceCheck(s)
                          THEN /\ pc' = "check_source_files"
                               /\ ret' = NoRet
                          ELSE /\ pc' = "returned"
                               /\ ret' = [NoRet EXCEPT !.pkg_complete =
                                            Returned(lvl, PkgComplete(s, c, FALSE))]
    /\ UNCHANGED <<wid, obs, idx, result, sources, msg, tmp_spec, completes>>

\* check_source_files up to the end of its first try block.
CheckSourceFiles ==
    /\ pc = "check_source_files"
    /\ \E lvl \in Levels :
          IF lvl = "skip"
          THEN /\ ret' = [ret EXCEPT !.sources_ok = Skipped.ok,
                                     !.pkg_complete =
                                        Returned(level.is_complete,
                                                 PkgComplete(spec, changes, Skipped.ok))]
               /\ pc' = "returned"
               /\ UNCHANGED <<level, sources, msg, tmp_spec, calls>>
          ELSE \E reply \in RpmReplies :
               LET action == wid.ev.actions.list[idx]
                   got == get_rpm_sources(filelist, reply)
                   upd == UpdateSources({}, None, got)
               IN /\ reply.kind # "parsed" => Matching(filelist, "spec") # <<>>
                  /\ level' = [level EXCEPT !.sources = lvl]
                  /\ tmp_spec' = got.tmp
                  /\ calls' = IF got.fetched = <<>> THEN calls
                              ELSE Append(calls, Call("getFile", action, got.fetched))
                  /\ ret' = [ret EXCEPT !.rpm = got.outcome, !.rpm_names = got.names]
                  /\ sources' = upd.sources
                  /\ msg' = upd.msg
                  /\ pc' = IF got.raises \in {"", "SourceError"}
                           THEN "get_deb_sources" ELSE "Exception"
    /\ UNCHANGED <<wid, obs, idx, result, filelist, spec, changes, completes>>

\* check_source_files from its second try block to its return, and
\* is_complete's return.  The frame of get_rpm_sources is released by then,
\* and a temporary file it left open is closed with it.
GetDebSources ==
    /\ pc = "get_deb_sources"
    /\ \E reply \in DebReplies :
       LET action == wid.ev.actions.list[idx]
           got == get_deb_sources(filelist, reply)
           upd == UpdateSources(sources, msg, got)
           scan == ScanFiles(filelist, 1, upd.sources, <<>>)
       IN /\ reply.kind # "parsed" => Matching(filelist, "dsc") # <<>>
          /\ calls' = IF got.fetched = <<>> THEN calls
                      ELSE Append(calls, Call("getFile", action, got.fetched))
          /\ \E order \in Orderings(scan.sources) :
             LET raw == Reconcile(filelist, upd.sources, upd.msg, order)
                 gated == CheckActionProcessor(level.sources, raw)
             IN /\ ret' = [ret EXCEPT !.deb = got.outcome, !.deb_names = got.names,
                                      !.declared = upd.sources,
                                      !.csf_ran = TRUE, !.csf = raw,
                                      !.sources_ok = gated.ok,
                                      !.pkg_complete =
                                         Returned(level.is_complete,
                                                  PkgComplete(spec, changes, gated.ok))]
                /\ sources' = IF NoSources(upd.sources) THEN upd.sources ELSE scan.sources
                /\ msg' = IF raw.ok \/ NoSources(upd.sources) THEN upd.msg ELSE raw.msg
          /\ tmp_spec' = IF tmp_spec = "open" THEN "closed" ELSE tmp_spec
          /\ pc' = "returned"
    /\ UNCHANGED <<wid, obs, idx, result, level, filelist, spec, changes, completes>>

\* handle_wi's loop takes pkg_complete and goes on to the next action, or
\* writes the result field after the last one.
Loop ==
    /\ pc = "returned"
    /\ LET res == Accumulate(result, ret.pkg_complete) IN
       /\ completes' = Append(completes, [action |-> wid.ev.actions.list[idx],
                                           pkg_complete |-> ret.pkg_complete])
       /\ result' = res
       /\ IF HasNext(wid.ev.actions, idx)
          THEN /\ idx' = idx + 1
               /\ pc' = "is_complete"
               /\ wid' = wid
          ELSE /\ idx' = idx
               /\ pc' = "done"
               /\ wid' = [wid EXCEPT !.result = res]
    /\ level' = NoLevel
    /\ filelist' = <<>>
    /\ spec' = FALSE
    /\ changes' = FALSE
    /\ sources' = {}
    /\ msg' = None
    /\ tmp_spec' = "none"
    /\ ret' = NoRet
    /\ calls' = <<>>
    /\ UNCHANGED obs

\* The garbage collector finalizes a temporary file that was left open.
Finalize ==
    /\ tmp_spec = "open"
    /\ tmp_spec' = "closed"
    /\ UNCHANGED <<pc, wid, obs, idx, result, level, filelist, spec, changes, sources,
                   msg, ret, calls, completes>>

\* handle_wi has returned or raised; the engine hands over the next workitem.
NextWorkitem ==
    /\ pc \in {"done", "RuntimeError", "Exception"}
    /\ pc' = "idle"
    /\ wid' \in Workitems(wid.result)
    /\ idx' = 0
    /\ result' = FALSE
    /\ level' = NoLevel
    /\ filelist' = <<>>
    /\ spec' = FALSE
    /\ changes' = FALSE
    /\ sources' = {}
    /\ msg' = None
    /\ tmp_spec' = "none"
    /\ ret' = NoRet
    /\ calls' = <<>>
    /\ completes' = <<>>
    /\ UNCHANGED obs

Next ==
    \/ HandleWi
    \/ IsComplete
    \/ CheckSourceFiles
    \/ GetDebSources
    \/ Loop
    \/ Finalize
    \/ NextWorkitem

Spec == Init /\ [][Next]_vars

----------------------------------------------------------------------------
\* Properties.

Skipped3 == {<<"spec">>, <<"changes">>, <<"dsc">>}
ActionList == wid.ev.actions.list
HasCall(op) == \E k \in 1..Len(calls) : calls[k].op = op
Texts(m) == [k \in 1..Len(m) |-> m[k].text]
ResolutionPrefix == "Failed to get source file list from spec or dsc: "

\* check_source_files ran to its return for the running action.
SourcesChecked == pc = "returned" /\ ret.csf_ran

\* check_source_files returned at `if not sources`.
ResolutionFailed ==
    /\ ~ret.csf.ok
    /\ ret.csf.msg # <<>>
    /\ ret.csf.msg[1].text = ResolutionPrefix

\* Positions of the listing entries the reconciliation looks at.
Examined == {k \in 1..Len(filelist) : SplitExt(filelist[k]) \notin Skipped3}

\* C1: when handle_wi finishes a workitem with actions, is_complete has been
\* called on every action, in the order of the list, also after an action that
\* was not complete, and the result field is true exactly when every call
\* returned true.
C1_EveryActionInOrder ==
    /\ pc \in {"is_complete", "check_source_files", "get_deb_sources", "returned"}
          => /\ Len(completes) = idx - 1
             /\ \A k \in 1..Len(completes) : completes[k].action = ActionList[k]
    /\ pc = "done"
          => /\ Len(completes) = Len(ActionList)
             /\ \A k \in 1..Len(completes) : completes[k].action = ActionList[k]
             /\ wid.result = (\A k \in 1..Len(completes) : completes[k].pkg_complete)

\* A finished run whose first action was not complete and whose second was.
C1_Witness ==
    /\ pc = "done"
    /\ Len(completes) = 2
    /\ ~completes[1].pkg_complete
    /\ completes[2].pkg_complete
    /\ ~wid.result

\* C2: a workitem whose ev.actions is absent or empty ends handle_wi with the
\* RuntimeError, never with a written result, and with neither setup_obs nor
\* any fetch called.
C2_NoActionsIsFatal ==
    (pc # "idle" /\ (~wid.ev.actions.given \/ Len(ActionList) = 0))
        => /\ pc = "RuntimeError"
           /\ calls = <<>>
           /\ completes = <<>>
           /\ ~wid.result

\* handle_wi raised on an empty list of actions before the client was ever set up.
C2_Witness ==
    /\ pc = "RuntimeError"
    /\ wid.ev.actions.given
    /\ ActionList = <<>>
    /\ obs = "None"

\* C3: no fault other than the RuntimeError for missing actions escapes
\* handle_wi: every other failure is returned as a failed check, and the run
\* goes on to write the result field.
C3_OnlyConfigurationErrorEscapes == pc # "Exception"

\* C4 as stated: with a non-empty declared set, check_source_files returns
\* true iff no examined entry is outside the declared set and every declared
\* name is matched by an examined entry.
C4_SetReconciliation ==
    (SourcesChecked /\ ret.declared # {})
        => (ret.csf.ok <=>
              /\ \A k \in Examined : filelist[k] \in ret.declared
              /\ \A n \in ret.declared : \E k \in Examined : filelist[k] = n)

\* C4 as amended: with a non-empty declared set, check_source_files returns
\* true iff no examined entry is outside the declared set or repeats an earlier
\* examined entry, and every declared name is matched by an examined entry.
C4_Reconciliation ==
    (SourcesChecked /\ ret.declared # {})
        => (ret.csf.ok <=>
              /\ \A k \in Examined :
                    /\ filelist[k] \in ret.declared
                    /\ \A j \in Examined : j < k => filelist[j] # filelist[k]
              /\ \A n \in ret.declared : \E k \in Examined : filelist[k] = n)

\* A listing that holds every declared name, one of them twice.
C4_Witness ==
    /\ SourcesChecked
    /\ ret.declared = {FooTar}
    /\ filelist = <<SpecName, FooTar, FooTar>>
    /\ ~ret.csf.ok

\* C5 as stated: check_source_files runs, and a manifest is fetched, only for
\* an action whose listing holds a spec file, and is_complete's result is the
\* conjunction of the three checks.
C5_SourcesOnlyWithSpecFile ==
    /\ (pc \in {"check_source_files", "get_deb_sources"} \/ SourcesChecked)
          => has_spec_file(filelist).ok
    /\ (HasCall("getPackageFileList") /\ ~has_spec_file(filelist).ok)
          => ~HasCall("getFile")
    /\ (pc = "returned" /\ HasCall("getPackageFileList"))
          => (ret.pkg_complete <=>
                \/ level.is_complete = "warn"
                \/ spec /\ changes /\ ret.sources_ok)

\* C5 as amended: check_source_files runs, and a manifest is fetched, only for
\* an action whose has_spec_file check returned true; that check returns false
\* only for a listing without a spec file; and is_complete's result is the
\* conjunction of what the three checks returned.
C5_SourcesOnlyAfterSpecCheck ==
    /\ (pc \in {"check_source_files", "get_deb_sources"} \/ SourcesChecked) => spec
    /\ (HasCall("getPackageFileList") /\ ~spec) => ~HasCall("getFile")
    /\ (pc = "returned" /\ HasCall("getPackageFileList") /\ ~spec)
          => /\ ~has_spec_file(filelist).ok
             /\ ~ret.csf_ran
             /\ ~ret.sources_ok
    /\ (pc = "returned" /\ HasCall("getPackageFileList"))
          => (ret.pkg_complete <=>
                \/ level.is_complete = "warn"
                \/ spec /\ changes /\ ret.sources_ok)

\* check_source_files ran, and fetched a dsc, for a listing without a spec file.
C5_Witness ==
    /\ SourcesChecked
    /\ spec
    /\ ~has_spec_file(filelist).ok
    /\ \E k \in 1..Len(calls) : calls[k].op = "getFile" /\ calls[k].name = <<DscName>>

\* What each path of the resolution records for its outcome.
RpmText(outcome) ==
    CASE outcome = "not found" -> <<"No spec file found">>
      [] outcome = "fetch failed" -> <<"Failed to fetch spec file">>
      [] outcome = "parse failed" -> <<"Failed to parse spec file">>
      [] OTHER -> <<>>

DebText(outcome) ==
    CASE outcome = "not found" -> <<"No dsc file found">>
      [] outcome = "fetch failed" -> <<"Failed to fetch dsc file">>
      [] outcome = "parse failed" -> <<"Failed to parse dsc file">>
      [] OTHER -> <<>>

\* C6: the resolution of check_source_files fails exactly when neither path
\* yielded a name, its message is then the prefix followed by what the spec
\* path and the dsc path recorded, in that order, and for a listing without
\* spec and dsc it holds both "No spec file found" and "No dsc file found".
C6_ResolutionFailure ==
    SourcesChecked
        => /\ ResolutionFailed <=> (ret.rpm_names \cup ret.deb_names = {})
           /\ ResolutionFailed
                 => Texts(ret.csf.msg) =
                       <<ResolutionPrefix>> \o RpmText(ret.rpm) \o DebText(ret.deb)
           /\ (Matching(filelist, "spec") = <<>> /\ Matching(filelist, "dsc") = <<>>)
                 => /\ ResolutionFailed
                    /\ \E k \in 1..Len(ret.csf.msg) :
                          ret.csf.msg[k].text = "No spec file found"
                    /\ \E k \in 1..Len(ret.csf.msg) :
                          ret.csf.msg[k].text = "No dsc file found"

\* The resolution failed for a listing with neither a spec nor a dsc file.
C6_Witness ==
    /\ SourcesChecked
    /\ Matching(filelist, "spec") = <<>>
    /\ Matching(filelist, "dsc") = <<>>
    /\ Texts(ret.csf.msg) = <<ResolutionPrefix, "No spec file found", "No dsc file found">>

\* C7: once get_rpm_sources has returned or raised, its temporary file is
\* not open.
C7_TemporaryFileReleased ==
    pc \in {"get_deb_sources", "returned", "Exception", "done"} => tmp_spec # "open"

\* C8: whatever the spec path ended with, the dsc path is attempted; the
\* declared set is the union of the names of both paths; and the resolution
\* succeeds when either path yielded a name.
C8_PathsIndependent ==
    /\ pc = "get_deb_sources"
          => ret.rpm \in {"not found", "fetch failed", "parse failed", "ok"}
    /\ SourcesChecked
          => /\ ret.rpm \in {"not found", "fetch failed", "parse failed", "ok"}
             /\ ret.deb \in {"not found", "fetch failed", "parse failed", "ok"}
             /\ (ret.deb # "not found") = (Matching(filelist, "dsc") # <<>>)
             /\ ret.declared = ret.rpm_names \cup ret.deb_names
             /\ (ret.rpm_names # {} \/ ret.deb_names # {}) => ~ResolutionFailed

\* The dsc path failed after the spec path had yielded a name, and the
\* resolution succeeded with it.
C8_Witness ==
    /\ SourcesChecked
    /\ ret.rpm = "ok"
    /\ ret.rpm_names = {BarTar}
    /\ ret.deb = "parse failed"
    /\ ret.declared = {BarTar}
    /\ ~ResolutionFailed

\* C9: once handle_wi has been entered, the result field is true only after
\* the last action, when every action was complete; it is false in every
\* other state of the run and after the run raised.
C9_ResultOnlyWhenAllComplete ==
    (pc # "idle" /\ wid.result)
        => /\ pc = "done"
           /\ Len(completes) = Len(ActionList)
           /\ \A k \in 1..Len(completes) : completes[k].pkg_complete

\* A fault escaped after a first action that was complete.
C9_Witness ==
    /\ pc = "Exception"
    /\ Len(completes) = 1
    /\ completes[1].pkg_complete
    /\ ~wid.result

\* C10: an examined entry that repeats an earlier examined entry bearing a
\* declared name is reported as an extra file and the check returns false.
C10_NameMatchedOnce ==
    (SourcesChecked /\ ret.declared # {})
        => \A k \in Examined :
              (filelist[k] \in ret.declared
               /\ \E j \in Examined : j < k /\ filelist[j] = filelist[k])
                 => /\ ~ret.csf.ok
                    /\ \E p \in 1..Len(ret.csf.msg) :
                          /\ ret.csf.msg[p].text = "Extra source files: "
                          /\ \E q \in 1..Len(ret.csf.msg[p].names) :
                                ret.csf.msg[p].names[q] = filelist[k]

\* Every declared name is in the listing, one twice, and the check failed
\* with nothing missing.
C10_Witness ==
    /\ SourcesChecked
    /\ ret.declared = {FooTar}
    /\ filelist = <<FooTar, SpecName, FooTar>>
    /\ ~ret.csf.ok
    /\ Texts(ret.csf.msg) = <<"No dsc file found", "Extra source files: ">>

====
